---- MODULE Spec2Model ----
(***************************************************************************)
(* A model of the loop-modeling benchmark repository.                      *)
(*                                                                         *)
(*   Spec      kickoff.py: the command-line driver that compiles rosetta,  *)
(*             records a benchmark in the database and submits it with     *)
(*             qsub (src/kickoff.py).                                      *)
(*   SpecAlign libraries/rmsdCalculator.py: the least-squares              *)
(*             superposition of two point sets.                            *)
(*   SpecRmsd  libraries/rmsdCalculator.py: RMSDCalculator.rmsd.           *)
(*                                                                         *)
(* A Python value that may be None is written as a sequence: <<>> is None  *)
(* and <<v>> is the value v.                                               *)
(***************************************************************************)
EXTENDS Integers, Sequences, FiniteSets

VARIABLES
    \* ---- kickoff.py ----
    pc,          \* position of the running script: "idle", "compile", "compile_only", "launch", "exited"
    arguments,   \* the dictionary docopt returns for this invocation
    compiled,    \* compile_rosetta() was invoked by this invocation
    created,     \* <<id>> of the Benchmarks row this invocation inserted, <<>> if none
    cleared,     \* utilities.clear_directory('job_output') was called by this invocation
    qsub,        \* <<command>> handed to subprocess.call by this invocation, <<>> if none
    exit,        \* how the invocation ended: "" while it runs, else the exit status ("0", "1", "2", "255") or the name of the uncaught exception
    database,    \* the benchmarks table: row i has id i
    \* ---- rmsdCalculator.py, superposition ----
    residue_list1, residue_list2,   \* the two residue lists handed to the alignment
    align,                          \* the outcome of the alignment call
    \* ---- rmsdCalculator.py, RMSDCalculator ----
    coord1, coord2,                 \* the fields self.coord1 and self.coord2
    ret                             \* the outcome of the last rmsd() call

vars == <<pc, arguments, compiled, created, cleared, qsub, exit, database,
          residue_list1, residue_list2, align, coord1, coord2, ret>>

kickoffVars == <<pc, arguments, compiled, created, cleared, qsub, exit, database>>
alignVars == <<residue_list1, residue_list2, align>>
rmsdVars == <<coord1, coord2, ret>>

\* ------------------------------------------------------------------------
\* Bounds of the model.

\* The benchmarks table holds at most this many rows before the model stops
\* starting new invocations.
MaxBenchmarks == 2

\* The longest text given to --nstruct.
MaxDigits == 1

\* The longest residue list handed to the alignment.
MaxLen == 3

\* The most points either coordinate array of an RMSDCalculator holds.
MaxAtoms == 2

\* ------------------------------------------------------------------------
\* kickoff.py

None == <<>>

Some(v) == <<v>>

\* (nstruct or 500) when the benchmark is not fast.
DefaultNstruct == 500

\* (nstruct or 10) when the benchmark is fast.
FastNstruct == 10

\* The characters a --nstruct text is made of here: two digits and a letter.
NstructChars == {"0", "2", "x"}

NstructTexts == UNION {[1..n -> NstructChars] : n \in 1..MaxDigits}

\* The paths that can be given as <pdbs>, each with its extension apart so
\* that str.endswith can be computed.
Paths ==
    { [stem |-> "a",     ext |-> ".pdb"],
      [stem |-> "b",     ext |-> ".pdb.gz"],
      [stem |-> "gone",  ext |-> ".pdb"],
      [stem |-> "set",   ext |-> ".pdbs"],
      [stem |-> "notes", ext |-> ".txt"] }

\* The files os.path.exists finds.
ExistingFiles ==
    { [stem |-> "a",     ext |-> ".pdb"],
      [stem |-> "b",     ext |-> ".pdb.gz"],
      [stem |-> "c",     ext |-> ".pdb"],
      [stem |-> "set",   ext |-> ".pdbs"],
      [stem |-> "notes", ext |-> ".txt"] }

\* The stripped lines of a '.pdbs' list file.
FileLines(path) ==
    IF path = [stem |-> "set", ext |-> ".pdbs"]
    THEN { [stem |-> "a", ext |-> ".pdb"], [stem |-> "c", ext |-> ".pdb"] }
    ELSE {}

EndsWith(path, suffix) == path.ext = suffix

Exists(path) == path \in ExistingFiles

\* What docopt can return for the two usage patterns.  An option that takes
\* an argument and is not on the command line is None; a flag is a boolean.
\* --fast, --nstruct, --compile-only and --execute-only belong to [options],
\* so both patterns accept them.
Arguments ==
    { a \in [ executeOnly : BOOLEAN, compileOnly : BOOLEAN, fast : BOOLEAN,
              nstruct : {None} \cup {Some(t) : t \in NstructTexts},
              resume : {None} \cup {Some(i) : i \in 1..(MaxBenchmarks + 1)},
              pdbs : SUBSET Paths ] :
        \/ a.resume = None /\ a.pdbs # {}
        \/ a.resume # None /\ a.pdbs = {} }

IsDigit(c) == c \in {"0", "1", "2", "3", "4", "5", "6", "7", "8", "9"}

DigitValue(c) ==
    CASE c = "0" -> 0 [] c = "1" -> 1 [] c = "2" -> 2 [] c = "3" -> 3
      [] c = "4" -> 4 [] c = "5" -> 5 [] c = "6" -> 6 [] c = "7" -> 7
      [] c = "8" -> 8 [] c = "9" -> 9

RECURSIVE DecimalValue(_)
DecimalValue(text) ==
    IF text = <<>> THEN 0
    ELSE 10 * DecimalValue(SubSeq(text, 1, Len(text) - 1)) + DigitValue(text[Len(text)])

\* int(arguments['--nstruct']): the outcome is the value or the exception.
IntOf(opt) ==
    IF opt = None THEN [ok |-> FALSE, error |-> "TypeError", value |-> 0]
    ELSE IF \A i \in 1..Len(opt[1]) : IsDigit(opt[1][i])
         THEN [ok |-> TRUE, error |-> "", value |-> DecimalValue(opt[1])]
         ELSE [ok |-> FALSE, error |-> "ValueError", value |-> 0]

\* x or y for an integer x that may be None.
Or(nstruct, default) ==
    IF nstruct = None \/ nstruct[1] = 0 THEN default ELSE nstruct[1]

\* The qsub command both run_benchmark and resume_benchmark build:
\* '-t 1-N' and '-l h_rt=...', then '-o job_output -e job_output' and the
\* benchmark command.
QsubCommand(benchmark_id, nstruct, fast, num_pdbs) ==
    IF fast
    THEN [last |-> Or(nstruct, FastNstruct) * num_pdbs, h_rt |-> "0:30:00",
          benchmark_id |-> benchmark_id]
    ELSE [last |-> Or(nstruct, DefaultNstruct) * num_pdbs, h_rt |-> "4:00:00",
          benchmark_id |-> benchmark_id]

\* The set of structures __main__ collects from <pdbs>.
CollectPdbs(pdb_args) ==
    { p \in pdb_args : EndsWith(p, ".pdb") \/ EndsWith(p, ".pdb.gz") }
      \cup UNION { FileLines(p) : p \in { q \in pdb_args : EndsWith(q, ".pdbs") } }

UnknownArgs(pdb_args) ==
    { p \in pdb_args :
        ~ (EndsWith(p, ".pdb") \/ EndsWith(p, ".pdb.gz") \/ EndsWith(p, ".pdbs")) }

\* A new invocation of the script: docopt parses the command line.
Invoke ==
    /\ pc = "idle"
    /\ Len(database) < MaxBenchmarks
    /\ \E a \in Arguments : arguments' = a
    /\ pc' = "compile"
    /\ UNCHANGED <<compiled, created, cleared, qsub, exit, database>>
    /\ UNCHANGED <<alignVars, rmsdVars>>

\* Whether __main__ calls compile_rosetta.
CompilesFirst(a) == ~ a.executeOnly

\* The codes the compile command can return: 0 when scons succeeds, the
\* status of scons when it fails (1, 2) and 255 when ssh itself fails.
ReturnCodes == {0, 1, 2, 255}

\* The text of an exit status.
StatusText(code) ==
    CASE code = 0 -> "0" [] code = 1 -> "1" [] code = 2 -> "2" [] code = 255 -> "255"

\* compile_rosetta(): every way the call can end.  shutil.copyfile raises
\* IOError when the settings file cannot be copied, os.symlink and
\* subprocess.call raise OSError; otherwise the code of the compile command
\* is returned.
compile_rosetta ==
    { [kind |-> "raise", error |-> e, code |-> 0] : e \in {"IOError", "OSError"} }
      \cup { [kind |-> "return", error |-> "", code |-> c] : c \in ReturnCodes }

\* if not arguments['--execute-only']: compile, and exit with the code of
\* the compile command when it is not zero.
MainCompile ==
    /\ pc = "compile"
    /\ IF CompilesFirst(arguments)
       THEN /\ compiled' = TRUE
            /\ \E outcome \in compile_rosetta :
                 IF outcome.kind = "raise"
                 THEN pc' = "exited" /\ exit' = outcome.error
                 ELSE LET error_code == outcome.code
                      IN  IF error_code # 0
                          THEN pc' = "exited" /\ exit' = StatusText(error_code)
                          ELSE pc' = "compile_only" /\ exit' = exit
       ELSE /\ compiled' = compiled
            /\ pc' = "compile_only"
            /\ exit' = exit
    /\ UNCHANGED <<arguments, created, cleared, qsub, database>>
    /\ UNCHANGED <<alignVars, rmsdVars>>

\* A slip: --compile-only is honoured for a new benchmark only.
StopsBeforeLaunch_NewOnly(a) == a.compileOnly /\ a.resume = None

\* Whether __main__ stops before the benchmark is launched.
StopsBeforeLaunch(a) == a.compileOnly

\* if arguments['--compile-only']: sys.exit(1)
MainCompileOnly ==
    /\ pc = "compile_only"
    /\ IF StopsBeforeLaunch(arguments)
       THEN pc' = "exited" /\ exit' = "1"
       ELSE pc' = "launch" /\ exit' = exit
    /\ UNCHANGED <<arguments, compiled, created, cleared, qsub, database>>
    /\ UNCHANGED <<alignVars, rmsdVars>>

\* resume_benchmark(benchmark_id, nstruct): the row is read, job_output is
\* cleared and the command is submitted.  query.get of an id that is not in
\* the table returns None, and len(benchmark.input_pdbs) raises.
resume_benchmark(benchmark_id, nstruct) ==
    IF benchmark_id \notin 1..Len(database)
    THEN /\ exit' = "AttributeError"
         /\ UNCHANGED <<cleared, qsub>>
    ELSE /\ cleared' = TRUE
         /\ qsub' = Some(QsubCommand(benchmark_id, nstruct,
                                     database[benchmark_id].fast,
                                     Cardinality(database[benchmark_id].input_pdbs)))
         /\ exit' = "0"

\* run_benchmark(name, script, pdbs, nstruct=..., fast=...): every input
\* exists (checked by the caller too), a Benchmarks row with its inputs is
\* inserted, job_output is cleared and the command is submitted.
run_benchmark(pdbs, nstruct, fast) ==
    IF \E pdb \in pdbs : ~ Exists(pdb)
    THEN /\ exit' = "ValueError"
         /\ UNCHANGED <<created, cleared, qsub, database>>
    ELSE /\ database' = Append(database, [fast |-> fast, input_pdbs |-> pdbs])
         /\ created' = Some(Len(database) + 1)
         /\ cleared' = TRUE
         /\ qsub' = Some(QsubCommand(Len(database) + 1, nstruct, fast, Cardinality(pdbs)))
         /\ exit' = "0"

\* The rest of __main__: resume an old benchmark or start a new one.  The
\* int(...) of the call's argument list is evaluated before the call.
MainLaunch ==
    /\ pc = "launch"
    /\ pc' = "exited"
    /\ IF arguments.resume # None
       THEN /\ IF IntOf(arguments.nstruct).ok
               THEN resume_benchmark(arguments.resume[1],
                                     Some(IntOf(arguments.nstruct).value))
               ELSE /\ exit' = IntOf(arguments.nstruct).error
                    /\ UNCHANGED <<cleared, qsub>>
            /\ UNCHANGED <<created, database>>
       ELSE IF UnknownArgs(arguments.pdbs) # {}
            THEN /\ exit' = "1"
                 /\ UNCHANGED <<created, cleared, qsub, database>>
       ELSE IF \E pdb \in CollectPdbs(arguments.pdbs) : ~ Exists(pdb)
            THEN /\ exit' = "1"
                 /\ UNCHANGED <<created, cleared, qsub, database>>
       ELSE IF ~ IntOf(arguments.nstruct).ok
            THEN /\ exit' = IntOf(arguments.nstruct).error
                 /\ UNCHANGED <<created, cleared, qsub, database>>
       ELSE run_benchmark(CollectPdbs(arguments.pdbs),
                          Some(IntOf(arguments.nstruct).value), arguments.fast)
    /\ UNCHANGED <<arguments, compiled>>
    /\ UNCHANGED <<alignVars, rmsdVars>>

NoArguments ==
    [executeOnly |-> FALSE, compileOnly |-> FALSE, fast |-> FALSE,
     nstruct |-> None, resume |-> None, pdbs |-> {}]

\* The process is gone: what it held in memory goes with it, the database
\* stays.
ProcessEnds ==
    /\ pc = "exited"
    /\ pc' = "idle"
    /\ arguments' = NoArguments
    /\ compiled' = FALSE
    /\ created' = None
    /\ cleared' = FALSE
    /\ qsub' = None
    /\ exit' = ""
    /\ UNCHANGED <<database>>
    /\ UNCHANGED <<alignVars, rmsdVars>>

InitKickoff ==
    /\ pc = "idle"
    /\ arguments = NoArguments
    /\ compiled = FALSE
    /\ created = None
    /\ cleared = FALSE
    /\ qsub = None
    /\ exit = ""
    /\ database = <<>>

IdleAlign ==
    /\ residue_list1 = <<>>
    /\ residue_list2 = <<>>
    /\ align = [kind |-> "none"]

IdleRmsd ==
    /\ coord1 = <<>>
    /\ coord2 = <<>>
    /\ ret = [kind |-> "none"]

Init == InitKickoff /\ IdleAlign /\ IdleRmsd

Next == Invoke \/ MainCompile \/ MainCompileOnly \/ MainLaunch \/ ProcessEnds

Spec == Init /\ [][Next]_vars

\* ------------------------------------------------------------------------
\* libraries/rmsdCalculator.py: superposition.
\*
\* The code works on arrays of any dimension; the model takes points of the
\* plane, written <<x, y>>, and matrices as sequences of rows.  The
\* arithmetic is exact.  A mean is the sum over the number of points, so the
\* model carries the numerators and names the denominator.  The singular
\* vectors of a 2 x 2 integer matrix have their entries in the rationals
\* extended by one square root, sqrt(d) with d square-free: a number
\* u + v * sqrt(d) is written <<u, v>>, and d goes with the outcome.  An
\* orthogonal matrix is written [dir |-> <<x, y>>, det |-> s]: its first
\* column is <<x, y>> / |<<x, y>>|, its determinant is s, and so its second
\* column is s * <<-y, x>> / |<<x, y>>|.  numpy fixes neither the signs of
\* the singular vectors nor the basis of a repeated or zero singular value,
\* so every decomposition is a possible outcome of the call.

\* The positions an atom can have: the corners of a triangle that is not
\* its own mirror image under a rotation of the axes.
Points == { <<1, 0>>, <<-1, 0>>, <<0, 1>> }

\* The residues a structure is built of here: an amino-acid residue reduced
\* to its CA atom, and a hetero residue (an ion) with no backbone atom.
Residues ==
    { << [name |-> "CA", coord |-> p] >> : p \in Points }
      \cup { << [name |-> "ZN", coord |-> <<0, 0>>] >> }

valid_atoms == {"N", "CA", "C", "O"}

RECURSIVE get_bb_coords_by_rosetta_ids(_)
\* The coordinates of the backbone atoms of the residues, in order.
get_bb_coords_by_rosetta_ids(residue_list) ==
    IF residue_list = <<>> THEN <<>>
    ELSE LET residue == Head(residue_list)
             kept == SelectSeq(residue, LAMBDA atom : atom.name \in valid_atoms)
         IN  [i \in 1..Len(kept) |-> kept[i].coord]
               \o get_bb_coords_by_rosetta_ids(Tail(residue_list))

VAdd(u, v) == <<u[1] + v[1], u[2] + v[2]>>

VSub(u, v) == <<u[1] - v[1], u[2] - v[2]>>

VScale(k, v) == <<k * v[1], k * v[2]>>

\* np.dot(M, c) for a matrix and a vector.
MatVec(M, c) == <<M[1][1] * c[1] + M[1][2] * c[2], M[2][1] * c[1] + M[2][2] * c[2]>>

\* np.dot(A, B) for two matrices.
MatMul(A, B) ==
    << <<A[1][1] * B[1][1] + A[1][2] * B[2][1], A[1][1] * B[1][2] + A[1][2] * B[2][2]>>,
       <<A[2][1] * B[1][1] + A[2][2] * B[2][1], A[2][1] * B[1][2] + A[2][2] * B[2][2]>> >>

Transpose(A) == << <<A[1][1], A[2][1]>>, <<A[1][2], A[2][2]>> >>

Det(A) == A[1][1] * A[2][2] - A[1][2] * A[2][1]

Identity == << <<1, 0>>, <<0, 1>> >>

\* The orthogonal matrices with integer entries.
Orthogonal ==
    { A \in { << <<a, b>>, <<c, d>> >> : a \in -1..1, b \in -1..1, c \in -1..1, d \in -1..1 } :
        MatMul(Transpose(A), A) = Identity }

RECURSIVE SumOf(_)
\* The sum of the points: n times np.mean(P, axis=0).
SumOf(P) == IF P = <<>> THEN <<0, 0>> ELSE VAdd(Head(P), SumOf(Tail(P)))

\* n times (np.array(P) - com), row by row.
Centered(P) ==
    LET n == Len(P)
        total == SumOf(P)
    IN  [k \in 1..n |-> VSub(VScale(n, P[k]), total)]

RECURSIVE ColumnDot(_, _, _, _)
\* The sum over the rows k of X[k][i] * Y[k][j].
ColumnDot(X, Y, i, j) ==
    IF X = <<>> THEN 0
    ELSE Head(X)[i] * Head(Y)[j] + ColumnDot(Tail(X), Tail(Y), i, j)

\* n^2 times R = np.dot(np.transpose(P1 - com1), P2 - com2).
CrossCovariance(P1, P2) ==
    LET X == Centered(P1)
        Y == Centered(P2)
    IN  << <<ColumnDot(X, Y, 1, 1), ColumnDot(X, Y, 1, 2)>>,
           <<ColumnDot(X, Y, 2, 1), ColumnDot(X, Y, 2, 2)>> >>

Abs(x) == IF x < 0 THEN -x ELSE x

Sign(x) == IF x > 0 THEN 1 ELSE IF x < 0 THEN -1 ELSE 0

RECURSIVE Gcd(_, _)
\* The greatest common divisor of two naturals, 0 for two zeros.
Gcd(a, b) == IF b = 0 THEN a ELSE Gcd(b, a % b)

RECURSIVE SquarePart(_, _)
\* The largest k' >= k whose square divides D, 1 when there is none.
SquarePart(D, k) ==
    IF k * k > D THEN 1
    ELSE LET above == SquarePart(D, k + 1)
         IN  IF above > 1 THEN above
             ELSE IF D % (k * k) = 0 THEN k ELSE 1

\* Sum, opposite and product of u + v * sqrt(d).
QAdd(a, b) == <<a[1] + b[1], a[2] + b[2]>>

QNeg(a) == <<-a[1], -a[2]>>

QMul(d, a, b) == <<a[1] * b[1] + a[2] * b[2] * d, a[1] * b[2] + a[2] * b[1]>>

\* The sign of u + v * sqrt(d): that of u|u| + v|v|d.
QSign(d, a) ==
    LET g == Gcd(Abs(a[1]), Abs(a[2]))
        u == a[1] \div g
        v == a[2] \div g
    IN  IF g = 0 THEN 0 ELSE Sign(u * Abs(u) + v * Abs(v) * d)

\* A vector <<x, y>> read as the complex number x + iy: the conjugate and
\* the product.  The matrix of determinant +1 and first column z maps w to
\* z * w, the one of determinant -1 maps w to z * Conj(w).
Conj(z) == <<z[1], QNeg(z[2])>>

CMul(d, z, w) ==
    << QAdd(QMul(d, z[1], w[1]), QNeg(QMul(d, z[2], w[2]))),
       QAdd(QMul(d, z[1], w[2]), QMul(d, z[2], w[1])) >>

VNeg(z) == <<QNeg(z[1]), QNeg(z[2])>>

\* An integer vector as a vector of the field.
Embed(c) == << <<c[1], 0>>, <<c[2], 0>> >>

\* The vector divided by the greatest common divisor of its four integers.
Reduce(z) ==
    LET g == Gcd(Gcd(Abs(z[1][1]), Abs(z[1][2])), Gcd(Abs(z[2][1]), Abs(z[2][2])))
    IN  IF g = 0 THEN z
        ELSE << <<z[1][1] \div g, z[1][2] \div g>>, <<z[2][1] \div g, z[2][2] \div g>> >>

\* A vector of the same direction as z, written in the shortest way: the
\* primitive integer vector when the direction is rational.
Normal(d, z) ==
    LET c == IF d = 1 THEN Embed(<<z[1][1] + z[1][2], z[2][1] + z[2][2]>>) ELSE z
        U == <<c[1][1], c[2][1]>>
        Vv == <<c[1][2], c[2][2]>>
        B0 == IF U # <<0, 0>> THEN U ELSE Vv
        g == Gcd(Abs(B0[1]), Abs(B0[2]))
        B == <<B0[1] \div g, B0[2] \div g>>
        i == IF B[1] # 0 THEN 1 ELSE 2
        s == QSign(d, <<(U[i] * Sign(B[i])) \div Abs(B[i]), (Vv[i] * Sign(B[i])) \div Abs(B[i])>>)
    IN  IF g # 0 /\ U[1] * Vv[2] - U[2] * Vv[1] = 0
        THEN Embed(<<s * B[1], s * B[2]>>)
        ELSE Reduce(c)

\* np.linalg.det of an orthogonal matrix.
det(A) == A.det

\* np.transpose of an orthogonal matrix: a rotation is inverted, a
\* reflection is symmetric.
transpose(A) == IF A.det = 1 THEN [dir |-> Conj(A.dir), det |-> 1] ELSE A

\* np.dot(A, B) of two orthogonal matrices: the first column is A applied
\* to the first column of B.
dot(d, A, B) ==
    [dir |-> Normal(d, CMul(d, A.dir, IF A.det = 1 THEN B.dir ELSE Conj(B.dir))),
     det |-> A.det * B.det]

\* |A.dir| times np.dot(A, c) for an orthogonal matrix and an integer vector.
apply(d, A, c) == CMul(d, A.dir, IF A.det = 1 THEN Embed(c) ELSE Conj(Embed(c)))

\* The square of |z|.
Norm2(d, z) == QAdd(QMul(d, z[1], z[1]), QMul(d, z[2], z[2]))

\* The entries of an orthogonal matrix, times |A.dir|.
Entries(A) ==
    << <<A.dir[1], IF A.det = 1 THEN QNeg(A.dir[2]) ELSE A.dir[2]>>,
       <<A.dir[2], IF A.det = 1 THEN A.dir[1] ELSE QNeg(A.dir[1])>> >>

\* The orthogonal matrix whose first row is w / |w| and whose determinant
\* is s.
FromFirstRow(w, s) == [dir |-> IF s = 1 THEN Conj(w) ELSE w, det |-> s]

\* The directions of the axes.
Axes == { Embed(<<1, 0>>), Embed(<<0, 1>>), Embed(<<-1, 0>>), Embed(<<0, -1>>) }

\* The row vector v.R for a vector of the field and an integer matrix.
RowTimes(d, v, R) ==
    << QAdd(QMul(d, v[1], <<R[1][1], 0>>), QMul(d, v[2], <<R[2][1], 0>>)),
       QAdd(QMul(d, v[1], <<R[1][2], 0>>), QMul(d, v[2], <<R[2][2], 0>>)) >>

\* The greatest common divisor of the entries of an integer matrix.
Content(R) == Gcd(Gcd(Abs(R[1][1]), Abs(R[1][2])), Gcd(Abs(R[2][1]), Abs(R[2][2])))

\* The matrix divided by the greatest common divisor of its entries.
Primitive(R) ==
    LET g == Content(R)
    IN  IF g = 0 THEN R
        ELSE << <<R[1][1] \div g, R[1][2] \div g>>, <<R[2][1] \div g, R[2][2] \div g>> >>

\* np.linalg.svd(R): the decompositions R = V.diag(S).W with V and W
\* orthogonal and S non-negative, in descending order, and the square-free
\* d their entries need.  R is given up to a positive factor, which changes
\* S only.  With G = R.R^T = [[p, q], [q, r]], the first column of V is an
\* eigenvector of G for its larger eigenvalue (p + r + sqrt(D)) / 2, where
\* D = (p - r)^2 + 4q^2, and the first row of W is that column times R, both
\* up to one sign; the second column of V and the second row of W are
\* orthogonal to them, with signs that agree with the sign of det(R) when
\* it is not zero.  When D = 0 the singular values are equal and V is any
\* orthogonal matrix: the model takes the eight with integer entries and
\* the ones whose first column is along the first column of R.  When R = 0
\* W is any orthogonal matrix too: the model takes the identity and the
\* reflection of the second axis.
SVD(R0) ==
    LET g == Content(R0)
        R == Primitive(R0)
        p == R[1][1] * R[1][1] + R[1][2] * R[1][2]
        r == R[2][1] * R[2][1] + R[2][2] * R[2][2]
        q == R[1][1] * R[2][1] + R[1][2] * R[2][2]
        D == (p - r) * (p - r) + 4 * q * q
        k == SquarePart(D, 1)
        d == D \div (k * k)
        first == << <<2 * q, 0>>, <<r - p, k>> >>
        second == << <<p - r, k>>, <<2 * q, 0>> >>
        v == Normal(d, IF QSign(d, first[1]) # 0 \/ QSign(d, first[2]) # 0
                       THEN first ELSE second)
    IN  IF g = 0
        THEN { [V |-> [dir |-> v1, det |-> s1],
                W |-> [dir |-> Embed(<<1, 0>>), det |-> s2], d |-> 1] :
                 v1 \in Axes, s1 \in {1, -1}, s2 \in {1, -1} }
        ELSE IF D = 0
        THEN { [V |-> [dir |-> v1, det |-> s1],
                W |-> FromFirstRow(Normal(1, RowTimes(1, v1, R)), s1 * Sign(Det(R))),
                d |-> 1] :
                 v1 \in Axes \cup { Normal(1, Embed(<<R[1][1], R[2][1]>>)),
                                    Normal(1, Embed(<<-R[1][1], -R[2][1]>>)) },
                 s1 \in {1, -1} }
        ELSE UNION { { [V |-> [dir |-> v1, det |-> s1],
                        W |-> FromFirstRow(Normal(d, RowTimes(d, v1, R)), s2),
                        d |-> d] :
                         s2 \in IF Det(R) # 0 THEN {s1 * Sign(Det(R))} ELSE {1, -1} } :
                     v1 \in {v, VNeg(v)}, s1 \in {1, -1} }

\* V[:, -1] = -V[:, -1]: the second column changes sign, and the determinant
\* with it.
NegateLastColumn(V) == [V EXCEPT !.det = -V.det]

\* A slip: the reflection is never undone.
FixReflection_Never(V, W) == V

\* if det(V) * det(W) < 0: negate the last column of V.
FixReflection(V, W) == IF det(V) * det(W) < 0 THEN NegateLastColumn(V) ELSE V

\* A slip: only a longer first set is refused.
SameNumberOfPoints_OneSided(P1, P2) == Len(P1) <= Len(P2)

\* The test of line 13, negated: the two sets have the same number of points.
SameNumberOfPoints(P1, P2) == Len(P1) = Len(P2)

\* get_superimpose_transformation(P1, P2) for one outcome svd of the
\* decomposition.  The matrix returned is Entries(M) / sqrt(h2), and the
\* translation com2 - np.dot(M, com1) is (t.sum2 - t.moved / sqrt(h2)) / t.den.
\* Two empty sets pass the length test and np.linalg.svd refuses the scalar
\* the products leave.
get_superimpose_transformation(P1, P2, svd) ==
    IF ~ SameNumberOfPoints(P1, P2) THEN [kind |-> "Exception"]
    ELSE IF P1 = <<>> THEN [kind |-> "LinAlgError"]
    ELSE LET M == transpose(dot(svd.d, FixReflection(svd.V, svd.W), svd.W))
         IN  [kind |-> "ok", d |-> svd.d, V |-> svd.V, W |-> svd.W, M |-> M,
              h2 |-> Norm2(svd.d, M.dir),
              t |-> [sum2 |-> SumOf(P2), moved |-> apply(svd.d, M, SumOf(P1)),
                     den |-> Len(P1)]]

\* The outcomes of get_superimpose_transformation(P1, P2).
SuperimposeOutcomes(P1, P2) ==
    IF Len(P1) = Len(P2) /\ P1 # <<>>
    THEN { get_superimpose_transformation(P1, P2, svd) : svd \in SVD(CrossCovariance(P1, P2)) }
    ELSE { get_superimpose_transformation(P1, P2,
               [V |-> [dir |-> Embed(<<1, 0>>), det |-> 1],
                W |-> [dir |-> Embed(<<1, 0>>), det |-> 1], d |-> 1]) }

\* res_list1 = [res for c in structure1[model1] for res in c]
LoadResidue1 ==
    /\ align.kind = "none"
    /\ Len(residue_list1) < MaxLen
    /\ \E residue \in Residues : residue_list1' = Append(residue_list1, residue)
    /\ UNCHANGED <<residue_list2, align>>
    /\ UNCHANGED <<kickoffVars, rmsdVars>>

\* res_list2 = [res for c in structure2[model2] for res in c]
LoadResidue2 ==
    /\ align.kind = "none"
    /\ Len(residue_list2) < MaxLen
    /\ \E residue \in Residues : residue_list2' = Append(residue_list2, residue)
    /\ UNCHANGED <<residue_list1, align>>
    /\ UNCHANGED <<kickoffVars, rmsdVars>>

\* get_align_transformation_for_two_list_of_residues(residue_list1, residue_list2)
get_align_transformation_for_two_list_of_residues ==
    /\ align.kind = "none"
    /\ IF Len(residue_list1) # Len(residue_list2)
       THEN align' = [kind |-> "AssertionError"]
       ELSE \E outcome \in SuperimposeOutcomes(get_bb_coords_by_rosetta_ids(residue_list1),
                                               get_bb_coords_by_rosetta_ids(residue_list2)) :
                align' = outcome
    /\ UNCHANGED <<residue_list1, residue_list2>>
    /\ UNCHANGED <<kickoffVars, rmsdVars>>

InitAlign == InitKickoff /\ IdleAlign /\ IdleRmsd

NextAlign == LoadResidue1 \/ LoadResidue2 \/ get_align_transformation_for_two_list_of_residues

SpecAlign == InitAlign /\ [][NextAlign]_vars

\* ------------------------------------------------------------------------
\* libraries/rmsdCalculator.py: RMSDCalculator.
\*
\* A transformation is None or (M, t) with the translation t.num / t.den.
\* The value rmsd returns is the square root of ret.num / ret.den; ret.milli
\* is that root in thousandths, rounded down.

\* The rotations and translations rmsd is called with here.
Transformations ==
    { [M |-> M, t |-> [num |-> num, den |-> den]] :
        M \in { A \in Orthogonal : Det(A) = 1 },
        num \in { <<0, 0>>, <<-1, 2>> },
        den \in { 1, 2 } }

\* A slip: the translation is left out.
ApplyTransformation_NoTranslation(M, t, c) == VScale(t.den, MatVec(M, c))

\* t.den times (np.dot(M, c) + t).
ApplyTransformation(M, t, c) == VAdd(VScale(t.den, MatVec(M, c)), t.num)

\* The shape numpy gives the difference of two coordinate arrays: the
\* number of rows, 0 when the shapes cannot be broadcast together.  The
\* array of no points has shape (0,), which goes with no (n, 2).
BroadcastRows(A, B) ==
    IF Len(A) = Len(B) THEN Len(A)
    ELSE IF Len(A) = 1 /\ Len(B) > 0 THEN Len(B)
    ELSE IF Len(B) = 1 /\ Len(A) > 0 THEN Len(A)
    ELSE 0

\* A - B, a row of either repeated when it is the only one.
Subtract(A, B) ==
    [k \in 1..BroadcastRows(A, B) |->
        VSub(IF Len(A) = 1 THEN A[1] ELSE A[k], IF Len(B) = 1 THEN B[1] ELSE B[k])]

RECURSIVE SumRows(_)
\* sum(rows): the builtin adds the rows of the array, one to the next.
SumRows(rows) == IF rows = <<>> THEN <<0, 0>> ELSE VAdd(Head(rows), SumRows(Tail(rows)))

RECURSIVE IsqrtBetween(_, _, _)
\* The largest r in lo..hi with r * r <= x, given lo * lo <= x < (hi + 1) * (hi + 1).
IsqrtBetween(x, lo, hi) ==
    IF lo = hi THEN lo
    ELSE LET mid == (lo + hi + 1) \div 2
         IN  IF mid * mid <= x THEN IsqrtBetween(x, mid, hi)
             ELSE IsqrtBetween(x, lo, mid - 1)

RECURSIVE IsqrtAbove(_, _)
\* The first of h, 2h, 4h, ... whose square exceeds x.
IsqrtAbove(x, h) == IF h * h > x THEN h ELSE IsqrtAbove(x, 2 * h)

\* The largest r with r * r <= x.
Isqrt(x) == IsqrtBetween(x, 0, IsqrtAbove(x, 1) - 1)

\* RMSDCalculator.rmsd(transformation) on the fields c1 and c2.
rmsd(c1, c2, transformation) ==
    LET den == IF transformation = None THEN 1 ELSE transformation[1].t.den
        first == IF transformation = None THEN c1
                 ELSE [k \in 1..Len(c1) |->
                         ApplyTransformation(transformation[1].M, transformation[1].t, c1[k])]
        second == [k \in 1..Len(c2) |-> VScale(den, c2[k])]
        diff == Subtract(first, second)
        squares == [k \in 1..Len(diff) |-> <<diff[k][1] * diff[k][1], diff[k][2] * diff[k][2]>>]
        columns == SumRows(squares)
        total == columns[1] + columns[2]
        l == Len(diff)
    IN  IF c1 = <<>> /\ c2 = <<>> THEN [kind |-> "TypeError"]
        ELSE IF BroadcastRows(first, second) = 0 THEN [kind |-> "ValueError"]
        ELSE [kind |-> "ok", transformation |-> transformation,
              num |-> total, den |-> den * den * l,
              milli |-> Isqrt((1000000 * total) \div (den * den * l))]

\* The constructor appends a backbone atom of the first structure to c1.
AppendCoord1 ==
    /\ ret.kind = "none"
    /\ Len(coord1) < MaxAtoms
    /\ \E p \in Points : coord1' = Append(coord1, p)
    /\ UNCHANGED <<coord2, ret>>
    /\ UNCHANGED <<kickoffVars, alignVars>>

\* The constructor appends a backbone atom of the second structure to c2.
AppendCoord2 ==
    /\ ret.kind = "none"
    /\ Len(coord2) < MaxAtoms
    /\ \E p \in Points : coord2' = Append(coord2, p)
    /\ UNCHANGED <<coord1, ret>>
    /\ UNCHANGED <<kickoffVars, alignVars>>

\* rmsd_calculator.rmsd() and rmsd_calculator.rmsd((M, t)): the call reads
\* the two fields and assigns to neither.
Rmsd ==
    /\ \E transformation \in {None} \cup {Some(x) : x \in Transformations} :
         ret' = rmsd(coord1, coord2, transformation)
    /\ UNCHANGED <<coord1, coord2>>
    /\ UNCHANGED <<kickoffVars, alignVars>>

InitRmsd == InitKickoff /\ IdleAlign /\ IdleRmsd

NextRmsd == AppendCoord1 \/ AppendCoord2 \/ Rmsd

SpecRmsd == InitRmsd /\ [][NextRmsd]_vars

\* ------------------------------------------------------------------------
\* Claims about kickoff.py (checked under Spec).

\* The command line is one the launch step can serve: --nstruct is absent or
\* a decimal number, a resumed id is in the table, every <pdbs> argument has
\* a known extension and every structure exists.
Launchable(a, db) ==
    /\ a.nstruct = None \/ IntOf(a.nstruct).ok
    /\ IF a.resume # None
       THEN a.resume[1] \in 1..Len(db)
       ELSE /\ UnknownArgs(a.pdbs) = {}
            /\ \A pdb \in CollectPdbs(a.pdbs) : Exists(pdb)

\* The number of structures and the fast setting of the benchmark the
\* command line is about.
NumPdbsOf(a, db) ==
    IF a.resume # None THEN Cardinality(db[a.resume[1]].input_pdbs)
    ELSE Cardinality(CollectPdbs(a.pdbs))

FastOf(a, db) == IF a.resume # None THEN db[a.resume[1]].fast ELSE a.fast

\* The simulations per structure the documentation promises.
DocumentedNstruct(a, db) ==
    IF a.nstruct # None THEN IntOf(a.nstruct).value
    ELSE IF FastOf(a, db) THEN FastNstruct ELSE DefaultNstruct

\* C1 (as claimed): an invocation that reaches the launch step with a
\* launchable command line submits the task range 1..(N * number of PDBs),
\* where N is 500 (10 when the benchmark is fast) if --nstruct is not given
\* and NUM if --nstruct NUM is given.
C1_DefaultTaskRange ==
    [][ (pc = "launch" /\ Launchable(arguments, database))
          => /\ qsub' # None
             /\ qsub'[1].last = DocumentedNstruct(arguments, database)
                                  * NumPdbsOf(arguments, database) ]_vars

\* C2: in every execution with --compile-only no Benchmarks row is created,
\* job_output is not cleared and no qsub command is issued, whatever the
\* other options are; and rosetta has been compiled by the time the script
\* leaves the compile step unless --execute-only was given too.
C2_CompileOnlyNeverLaunches ==
    arguments.compileOnly =>
        /\ created = None
        /\ ~ cleared
        /\ qsub = None
        /\ pc # "launch"
        /\ (pc \in {"compile_only", "exited"} /\ ~ arguments.executeOnly) => compiled

\* C2 witness: an invocation with --compile-only, --execute-only and
\* --resume of a benchmark that is in the table has ended.
C2_Witness ==
    /\ pc = "exited"
    /\ arguments.compileOnly
    /\ arguments.executeOnly
    /\ arguments.resume # None
    /\ arguments.resume[1] \in 1..Len(database)
    /\ arguments.nstruct # None
    /\ IntOf(arguments.nstruct).ok
    /\ exit = "1"

\* C3 (as claimed): an invocation with --execute-only and without
\* --compile-only, given a launchable command line, ends without having
\* invoked compile_rosetta and with the benchmark submitted.
C3_ExecuteOnlyStillSubmits ==
    (/\ pc = "exited"
     /\ arguments.executeOnly
     /\ ~ arguments.compileOnly
     /\ Launchable(arguments, database))
        => (~ compiled /\ qsub # None)

\* ------------------------------------------------------------------------
\* Claims about the superposition (checked under SpecAlign).

P1 == get_bb_coords_by_rosetta_ids(residue_list1)

P2 == get_bb_coords_by_rosetta_ids(residue_list2)

\* |V.dir| * |W.dir| times the entry (i, j) of V^T.R.W^T.
Sandwich(d, V, R, W, i, j) ==
    LET EV == Entries(V)
        EW == Entries(W)
        Term(a, b) == QMul(d, QMul(d, EV[a][i], <<R[a][b], 0>>), EW[j][b])
    IN  QAdd(QAdd(Term(1, 1), Term(1, 2)), QAdd(Term(2, 1), Term(2, 2)))

\* C4: the transformation returned for two sets of n points is a proper
\* rotation M (orthogonal, determinant +1, never -1) and the translation
\* t = com2 - M.com1, where M is the transpose of V.W after the last column
\* of V has been negated exactly when det(V) * det(W) < 0, and V, S, W
\* decompose the cross-covariance of the centered sets: V^T.R.W^T is
\* diagonal with non-negative entries in descending order.  M maps P1 onto
\* P2: it is the rotation by the angle of <<R11 + R22, R12 - R21>>, the
\* least-squares rotation, whenever that vector is not zero.
C4_ProperRotation ==
    align.kind = "ok" =>
        LET c1 == P1
            c2 == P2
            d == align.d
            R == Primitive(CrossCovariance(c1, c2))
        IN  /\ QSign(d, Sandwich(d, align.V, R, align.W, 1, 2)) = 0
            /\ QSign(d, Sandwich(d, align.V, R, align.W, 2, 1)) = 0
            /\ QSign(d, Sandwich(d, align.V, R, align.W, 2, 2)) >= 0
            /\ QSign(d, QAdd(Sandwich(d, align.V, R, align.W, 1, 1),
                             QNeg(Sandwich(d, align.V, R, align.W, 2, 2)))) >= 0
            /\ \E negated \in BOOLEAN :
                 /\ negated <=> (det(align.V) * det(align.W) < 0)
                 /\ align.M = transpose(dot(d, IF negated THEN NegateLastColumn(align.V)
                                               ELSE align.V, align.W))
            /\ det(align.M) = 1
            /\ (R[1][1] + R[2][2] # 0 \/ R[1][2] - R[2][1] # 0)
                   => align.M.dir = Normal(1, Embed(<<R[1][1] + R[2][2], R[1][2] - R[2][1]>>))
            /\ align.h2 = Norm2(d, align.M.dir)
            /\ align.t.den = Len(c1)
            /\ align.t.sum2 = SumOf(c2)
            /\ align.t.moved = apply(d, align.M, SumOf(c1))

\* C4 witness: three points and their mirror image have been aligned; the
\* cross-covariance has full rank, the decomposition has a negative
\* determinant product and the rotation returned is the half turn.
C4_Witness ==
    /\ align.kind = "ok"
    /\ Len(P1) = 3
    /\ Det(CrossCovariance(P1, P2)) # 0
    /\ det(align.V) * det(align.W) < 0
    /\ align.M = [dir |-> Embed(<<-1, 0>>), det |-> 1]

\* C6: the alignment of two residue lists of different lengths fails its
\* assertion; with lists of the same length whose backbone coordinates
\* differ in number, get_superimpose_transformation raises its exception;
\* a transformation is returned only for two sets of the same size.
C6_UnequalLengthsRaise ==
    align.kind # "none" =>
        LET n1 == Len(P1)
            n2 == Len(P2)
        IN  /\ Len(residue_list1) # Len(residue_list2) => align.kind = "AssertionError"
            /\ (Len(residue_list1) = Len(residue_list2) /\ n1 # n2)
                   => align.kind = "Exception"
            /\ align.kind = "ok" => n1 = n2

\* C6 witness: two lists of three residues, the first with a hetero residue,
\* have been handed to the alignment and the exception was raised.
C6_Witness ==
    /\ align.kind = "Exception"
    /\ Len(residue_list1) = 3
    /\ Len(residue_list2) = 3
    /\ Len(P1) < Len(P2)

\* ------------------------------------------------------------------------
\* Claims about RMSDCalculator.rmsd (checked under SpecRmsd).

\* The denominator of the translation of a transformation, 1 for None.
Denominator(transformation) ==
    IF transformation = None THEN 1 ELSE transformation[1].t.den

\* The squared distance between the point c of coord1, moved by the
\* transformation the call was given, and the point d of coord2, times the
\* square of the translation's denominator.
SquaredDistance(transformation, c, d) ==
    LET den == Denominator(transformation)
        moved == IF transformation = None THEN c
                 ELSE VAdd(VScale(den, MatVec(transformation[1].M, c)),
                           transformation[1].t.num)
        fixed == VScale(den, d)
    IN  (moved[1] - fixed[1]) * (moved[1] - fixed[1])
          + (moved[2] - fixed[2]) * (moved[2] - fixed[2])

RECURSIVE SumOfSquaredDistances(_, _, _)
SumOfSquaredDistances(transformation, c1, c2) ==
    IF c1 = <<>> THEN 0
    ELSE SquaredDistance(transformation, Head(c1), Head(c2))
           + SumOfSquaredDistances(transformation, Tail(c1), Tail(c2))

\* C5: for two arrays of the same number n > 0 of points, rmsd returns the
\* square root of (the sum over the points of the squared distance between
\* M.c + t and the corresponding point of coord2) / n, the raw coord1 being
\* used when the transformation is None; coord1 and coord2 are the arrays
\* the call found.
C5_RootMeanSquare ==
    (Len(coord1) = Len(coord2) /\ coord1 # <<>> /\ ret.kind # "none") =>
        /\ ret.kind = "ok"
        /\ ret.den > 0
        /\ ret.num * (Denominator(ret.transformation) * Denominator(ret.transformation)
                        * Len(coord1))
             = SumOfSquaredDistances(ret.transformation, coord1, coord2) * ret.den
        /\ ret.milli * ret.milli * ret.den <= 1000000 * ret.num
        /\ (ret.milli + 1) * (ret.milli + 1) * ret.den > 1000000 * ret.num

\* C5 witness: rmsd was called with a quarter turn and a translation by
\* halves on two arrays of two points, and the distance is not zero.
C5_Witness ==
    /\ ret.kind = "ok"
    /\ Len(coord1) = 2
    /\ Len(coord2) = 2
    /\ ret.transformation # None
    /\ ret.transformation[1].M = << <<0, -1>>, <<1, 0>> >>
    /\ ret.transformation[1].t = [num |-> <<-1, 2>>, den |-> 2]
    /\ ret.milli > 0

====
